---- MODULE Spec2Model ----
(***************************************************************************)
(* HBAI: the chat orchestrator (src/app.py), the context builder and text  *)
(* normalizer (src/korean_utils.py) and the HTTP model client              *)
(* (src/huggingface_model_manager.py).                                     *)
(*                                                                         *)
(* A text is a sequence of Unicode code points, so that the character      *)
(* classes of the regular expressions and the Hangul range test are the    *)
(* comparisons the code makes.  Python's None is the model value None.     *)
(***************************************************************************)
EXTENDS Integers, Sequences, FiniteSets, TLC

\* Python's None where a text is expected: a tuple that is no text
None == <<-1>>

-----------------------------------------------------------------------------
(* Characters and character classes                                        *)

\* '가', the first code point of [가-힣]
HangulFirst == 44032
\* '힣', the last code point of [가-힣]
HangulLast == 55203
\* '\n'
NL == 10
\* ' '
SP == 32
\* '<'
LT == 60
\* '|'
PIPE == 124
\* '>'
GT == 62
\* '('
LPAREN == 40
\* ')'
RPAREN == 41

\* [가-힣]
IsHangul(c) == c >= HangulFirst /\ c <= HangulLast

\* [a-zA-Z]
IsAsciiLetter(c) == (c >= 97 /\ c <= 122) \/ (c >= 65 /\ c <= 90)

\* [,.!?;:]
IsPunct(c) == c \in {44, 46, 33, 63, 59, 58}

\* the characters str.strip() removes (str.isspace())
IsSpace(c) ==
  \/ c \in {9, 10, 11, 12, 13, 28, 29, 30, 31, 32, 133, 160, 5760}
  \/ (c >= 8192 /\ c <= 8202)
  \/ c \in {8232, 8233, 8239, 8287, 12288}

-----------------------------------------------------------------------------
(* Python string primitives                                                *)

\* s[i:i+len(p)] == p
StartsWithAt(s, i, p) ==
  /\ i >= 1
  /\ i + Len(p) - 1 <= Len(s)
  /\ \A k \in 1..Len(p) : s[i + k - 1] = p[k]

\* p in s, for a non-empty p
Contains(s, p) == \E i \in 1..(Len(s) - Len(p) + 1) : StartsWithAt(s, i, p)

\* s.endswith(p)
EndsWith(s, p) == StartsWithAt(s, Len(s) - Len(p) + 1, p)

\* s.endswith(tuple) and any(s.endswith(e) for e in list)
EndsWithAny(s, ps) == \E k \in 1..Len(ps) : EndsWith(s, ps[k])

\* s.strip()
Strip(s) ==
  LET keep == {i \in 1..Len(s) : ~IsSpace(s[i])}
  IN IF keep = {} THEN <<>>
     ELSE LET a == CHOOSE i \in keep : \A j \in keep : i <= j
              b == CHOOSE i \in keep : \A j \in keep : i >= j
          IN SubSeq(s, a, b)

\* s.lower() on the letters A-Z; every other character of the texts modelled
\* here (ASCII punctuation, digits, Hangul syllables) has no lower case
Lower(s) == [i \in 1..Len(s) |-> IF s[i] >= 65 /\ s[i] <= 90 THEN s[i] + 32 ELSE s[i]]

\* s.split(p)[-1]: the text after the last occurrence of p (all of s when p
\* does not occur).  The separators used have no proper border, so their
\* occurrences never overlap and the left-to-right split ends at the last one.
AfterLast(s, p) ==
  LET occ == {i \in 1..(Len(s) - Len(p) + 1) : StartsWithAt(s, i, p)}
  IN IF occ = {} THEN s
     ELSE LET i == CHOOSE x \in occ : \A y \in occ : x >= y
          IN SubSeq(s, i + Len(p), Len(s))

\* s.split(p)[0]: the text before the first occurrence of p
BeforeFirst(s, p) ==
  LET occ == {i \in 1..(Len(s) - Len(p) + 1) : StartsWithAt(s, i, p)}
  IN IF occ = {} THEN s
     ELSE LET i == CHOOSE x \in occ : \A y \in occ : x <= y
          IN SubSeq(s, 1, i - 1)

\* s[lo..hi] rebuilt character by character: a character is kept when its
\* index is in keep and is followed by a space when its index is in spaced.
\* (Halving the range keeps the evaluation shallow on long texts.)
RECURSIVE Rebuild(_, _, _, _, _)
Rebuild(s, keep, spaced, lo, hi) ==
  IF lo > hi THEN <<>>
  ELSE IF lo = hi
       THEN (IF lo \in keep THEN <<s[lo]>> ELSE <<>>)
              \o (IF lo \in spaced THEN <<SP>> ELSE <<>>)
       ELSE LET mid == (lo + hi) \div 2
            IN Rebuild(s, keep, spaced, lo, mid)
                 \o Rebuild(s, keep, spaced, mid + 1, hi)

\* the characters of s at the indices in keep, in order
Pick(s, keep) == Rebuild(s, keep, {}, 1, Len(s))

\* "sep".join(parts)
RECURSIVE Join(_, _)
Join(parts, sep) ==
  IF parts = <<>> THEN <<>>
  ELSE IF Len(parts) = 1 THEN parts[1]
  ELSE parts[1] \o sep \o Join(Tail(parts), sep)

-----------------------------------------------------------------------------
(* String literals of the source                                           *)

\* korean_utils.py:33: "<|im_start|>system\n당신은 한국어와 영어를 모두 지원하는 도움이 되는 AI 어시스턴트입니다. 사용자의 언어에 맞춰 적절하게 응답해주세요.<|im_end|>"
SYSTEM_BLOCK ==
  << 60, 124, 105, 109, 95, 115, 116, 97, 114, 116, 124, 62, 115, 121, 115, 116, 101,
     109, 10, 45817, 49888, 51008, 32, 54620, 44397, 50612, 50752, 32, 50689, 50612,
     47484, 32, 47784, 46160, 32, 51648, 50896, 54616, 45716, 32, 46020, 50880, 51060,
     32, 46104, 45716, 32, 65, 73, 32, 50612, 49884, 49828, 53556, 53944, 51077, 45768,
     45796, 46, 32, 49324, 50857, 51088, 51032, 32, 50616, 50612, 50640, 32, 47582,
     52656, 32, 51201, 51208, 54616, 44172, 32, 51025, 45813, 54644, 51452, 49464, 50836,
     46, 60, 124, 105, 109, 95, 101, 110, 100, 124, 62 >>

\* korean_utils.py:38: "<|im_start|>user\n"
USER_OPEN ==
  << 60, 124, 105, 109, 95, 115, 116, 97, 114, 116, 124, 62, 117, 115, 101, 114, 10 >>

\* korean_utils.py:40,43: "<|im_start|>assistant\n"
ASSISTANT_OPEN ==
  << 60, 124, 105, 109, 95, 115, 116, 97, 114, 116, 124, 62, 97, 115, 115, 105, 115, 116,
     97, 110, 116, 10 >>

\* korean_utils.py:38,40; app.py:71: "<|im_end|>"
IM_END ==
  << 60, 124, 105, 109, 95, 101, 110, 100, 124, 62 >>

\* app.py:70; huggingface_model_manager.py:158: "user\n"
USER_NL ==
  << 117, 115, 101, 114, 10 >>

\* app.py:73; huggingface_model_manager.py:67: "Hello"
HELLO ==
  << 72, 101, 108, 108, 111 >>

\* korean_utils.py:11: '습니다', '입니다', '드립니다', '어요', '아요', '에요'
honorific_endings ==
  << <<49845, 45768, 45796>>,
     <<51077, 45768, 45796>>,
     <<46300, 47549, 45768, 45796>>,
     <<50612, 50836>>,
     <<50500, 50836>>,
     <<50640, 50836>> >>

\* korean_utils.py:12: '까요', '나요', '어요', '습니까'
question_endings ==
  << <<44620, 50836>>,
     <<45208, 50836>>,
     <<50612, 50836>>,
     <<49845, 45768, 44620>> >>

\* korean_utils.py:88: '.', '!', '?', '습니다', '입니다', '어요', '아요', '에요'
proper_endings ==
  << <<46>>,
     <<33>>,
     <<63>>,
     <<49845, 45768, 45796>>,
     <<51077, 45768, 45796>>,
     <<50612, 50836>>,
     <<50500, 50836>>,
     <<50640, 50836>> >>

\* korean_utils.py:90: '무엇', '어떻게', '왜', '언제', '어디서', '누가', 'what', 'how', 'why', 'when', 'where', 'who'
question_words ==
  << <<47924, 50631>>,
     <<50612, 46523, 44172>>,
     <<50780>>,
     <<50616, 51228>>,
     <<50612, 46356, 49436>>,
     <<45572, 44032>>,
     <<119, 104, 97, 116>>,
     <<104, 111, 119>>,
     <<119, 104, 121>>,
     <<119, 104, 101, 110>>,
     <<119, 104, 101, 114, 101>>,
     <<119, 104, 111>> >>

\* korean_utils.py:92: "까요?"
QUESTION_SUFFIX ==
  << 44620, 50836, 63 >>

\* korean_utils.py:96: "습니다."
POLITE_SUFFIX ==
  << 49845, 45768, 45796, 46 >>

\* app.py:76: "'"
KO1_PRE ==
  << 39 >>

\* app.py:76: "'에 대한 흥미로운 질문이네요! 자세히 설명해 드리겠습니다."
KO1_POST ==
  << 39, 50640, 32, 45824, 54620, 32, 55141, 48120, 47196, 50868, 32, 51656, 47928,
     51060, 45348, 50836, 33, 32, 51088, 49464, 55176, 32, 49444, 47749, 54644, 32,
     46300, 47532, 44192, 49845, 45768, 45796, 46 >>

\* app.py:77: "말씀하신 '"
KO2_PRE ==
  << 47568, 50432, 54616, 49888, 32, 39 >>

\* app.py:77: "' 관련해서 도움을 드릴 수 있습니다. 어떤 부분이 궁금하신가요?"
KO2_POST ==
  << 39, 32, 44288, 47144, 54644, 49436, 32, 46020, 50880, 51012, 32, 46300, 47540, 32,
     49688, 32, 51080, 49845, 45768, 45796, 46, 32, 50612, 46500, 32, 48512, 48516,
     51060, 32, 44417, 44552, 54616, 49888, 44032, 50836, 63 >>

\* app.py:78: "네, 이해했습니다. 한국어로 자연스럽게 대화하며 도움을 드리겠습니다."
KO3 ==
  << 45348, 44, 32, 51060, 54644, 54664, 49845, 45768, 45796, 46, 32, 54620, 44397,
     50612, 47196, 32, 51088, 50672, 49828, 47101, 44172, 32, 45824, 54868, 54616, 47728,
     32, 46020, 50880, 51012, 32, 46300, 47532, 44192, 49845, 45768, 45796, 46 >>

\* app.py:79: "좋은 질문입니다! 더 자세한 정보를 원하시면 언제든 말씀해 주세요."
KO4 ==
  << 51339, 51008, 32, 51656, 47928, 51077, 45768, 45796, 33, 32, 45908, 32, 51088,
     49464, 54620, 32, 51221, 48372, 47484, 32, 50896, 54616, 49884, 47732, 32, 50616,
     51228, 46304, 32, 47568, 50432, 54644, 32, 51452, 49464, 50836, 46 >>

\* app.py:83: "That's an interesting question about '"
EN1_PRE ==
  << 84, 104, 97, 116, 39, 115, 32, 97, 110, 32, 105, 110, 116, 101, 114, 101, 115, 116,
     105, 110, 103, 32, 113, 117, 101, 115, 116, 105, 111, 110, 32, 97, 98, 111, 117,
     116, 32, 39 >>

\* app.py:83: "'! Let me explain in detail."
EN1_POST ==
  << 39, 33, 32, 76, 101, 116, 32, 109, 101, 32, 101, 120, 112, 108, 97, 105, 110, 32,
     105, 110, 32, 100, 101, 116, 97, 105, 108, 46 >>

\* app.py:84: "I can help you with '"
EN2_PRE ==
  << 73, 32, 99, 97, 110, 32, 104, 101, 108, 112, 32, 121, 111, 117, 32, 119, 105, 116,
     104, 32, 39 >>

\* app.py:84: "'. What specific aspect would you like to know more about?"
EN2_POST ==
  << 39, 46, 32, 87, 104, 97, 116, 32, 115, 112, 101, 99, 105, 102, 105, 99, 32, 97, 115,
     112, 101, 99, 116, 32, 119, 111, 117, 108, 100, 32, 121, 111, 117, 32, 108, 105,
     107, 101, 32, 116, 111, 32, 107, 110, 111, 119, 32, 109, 111, 114, 101, 32, 97, 98,
     111, 117, 116, 63 >>

\* app.py:85: "Yes, I understand. I'm here to help you with natural conversation in both languages."
EN3 ==
  << 89, 101, 115, 44, 32, 73, 32, 117, 110, 100, 101, 114, 115, 116, 97, 110, 100, 46,
     32, 73, 39, 109, 32, 104, 101, 114, 101, 32, 116, 111, 32, 104, 101, 108, 112, 32,
     121, 111, 117, 32, 119, 105, 116, 104, 32, 110, 97, 116, 117, 114, 97, 108, 32, 99,
     111, 110, 118, 101, 114, 115, 97, 116, 105, 111, 110, 32, 105, 110, 32, 98, 111,
     116, 104, 32, 108, 97, 110, 103, 117, 97, 103, 101, 115, 46 >>

\* app.py:86: "Great question! Feel free to ask if you need more detailed information."
EN4 ==
  << 71, 114, 101, 97, 116, 32, 113, 117, 101, 115, 116, 105, 111, 110, 33, 32, 70, 101,
     101, 108, 32, 102, 114, 101, 101, 32, 116, 111, 32, 97, 115, 107, 32, 105, 102, 32,
     121, 111, 117, 32, 110, 101, 101, 100, 32, 109, 111, 114, 101, 32, 100, 101, 116,
     97, 105, 108, 101, 100, 32, 105, 110, 102, 111, 114, 109, 97, 116, 105, 111, 110, 46 >>

\* app.py:425: "응답 생성에 실패했습니다. 다시 시도해주세요."
ERR_KO ==
  << 51025, 45813, 32, 49373, 49457, 50640, 32, 49892, 54056, 54664, 49845, 45768, 45796,
     46, 32, 45796, 49884, 32, 49884, 46020, 54644, 51452, 49464, 50836, 46 >>

\* app.py:427: "Failed to generate response. Please try again."
ERR_EN ==
  << 70, 97, 105, 108, 101, 100, 32, 116, 111, 32, 103, 101, 110, 101, 114, 97, 116, 101,
     32, 114, 101, 115, 112, 111, 110, 115, 101, 46, 32, 80, 108, 101, 97, 115, 101, 32,
     116, 114, 121, 32, 97, 103, 97, 105, 110, 46 >>

-----------------------------------------------------------------------------
(* Text normalizer: src/korean_utils.py                                    *)

\* korean_pattern.search(text): some character in [가-힣]
\* contains_korean with the class [가-힢], one syllable short
contains_korean_OneShort(text) ==
  \E i \in 1..Len(text) : text[i] >= HangulFirst /\ text[i] < HangulLast

\* bool(korean_pattern.search(text)): [가-힣]+ matches somewhere
contains_korean(text) == \E i \in 1..Len(text) : IsHangul(text[i])

\* The end index of the match of <\|.*?\|> that starts at i, or 0: "<|", then
\* the shortest run of characters other than '\n', then "|>".
TokenEnd(s, i) ==
  IF ~(i + 3 <= Len(s) /\ s[i] = LT /\ s[i + 1] = PIPE) THEN 0
  ELSE LET ends == {j \in (i + 2)..(Len(s) - 1) :
                      /\ s[j] = PIPE
                      /\ s[j + 1] = GT
                      /\ \A k \in (i + 2)..(j - 1) : s[k] # NL}
       IN IF ends = {} THEN 0
          ELSE (CHOOSE j \in ends : \A x \in ends : j <= x) + 1

\* re.sub(r'<\|.*?\|>', '', s) from index i on: the leftmost match is
\* removed and the scan goes on behind it, so text that a removal joins
\* together is not scanned again
RECURSIVE StripTokensFrom(_, _)
StripTokensFrom(s, i) ==
  LET starts == {k \in i..Len(s) : TokenEnd(s, k) > 0}
  IN IF starts = {} THEN SubSeq(s, i, Len(s))
     ELSE LET k == CHOOSE x \in starts : \A y \in starts : x <= y
          IN SubSeq(s, i, k - 1) \o StripTokensFrom(s, TokenEnd(s, k) + 1)

StripTokens(s) == StripTokensFrom(s, 1)

\* re.sub(r'\n+', '\n', s) and re.sub(r' +', ' ', s): a run of c becomes one c
CollapseRuns(s, c) ==
  Pick(s, {i \in 1..Len(s) : ~(s[i] = c /\ i > 1 /\ s[i - 1] = c)})

\* the run of spaces that starts at i reaches a character satisfying the test
SpacesThenPunct(s, i) ==
  \E j \in (i + 1)..Len(s) : IsPunct(s[j]) /\ \A k \in i..(j - 1) : s[k] = SP

SpacesThenLParen(s, i) ==
  \E j \in (i + 1)..Len(s) : s[j] = LPAREN /\ \A k \in i..(j - 1) : s[k] = SP

RParenThenSpaces(s, i) ==
  \E j \in 1..(i - 1) : s[j] = RPAREN /\ \A k \in (j + 1)..i : s[k] = SP

\* s[i] is matched by ([,.!?;:]) with ([가-힣a-zA-Z]) behind it
PunctThenLetter(s, i) ==
  /\ IsPunct(s[i])
  /\ i < Len(s)
  /\ (IsHangul(s[i + 1]) \/ IsAsciiLetter(s[i + 1]))

fix_korean_spacing(text) ==
  LET \* re.sub(r' +([,.!?;:])', r'\1', text)
      t1 == Pick(text, {i \in 1..Len(text) :
                          ~(text[i] = SP /\ SpacesThenPunct(text, i))})
      \* re.sub(r'([,.!?;:])([가-힣a-zA-Z])', r'\1 \2', text)
      t2 == Rebuild(t1, 1..Len(t1), {i \in 1..Len(t1) : PunctThenLetter(t1, i)},
                    1, Len(t1))
      \* re.sub(r' +\(', ' (', text)
      t3 == Pick(t2, {i \in 1..Len(t2) :
                        ~(/\ t2[i] = SP
                          /\ SpacesThenLParen(t2, i)
                          /\ t2[i + 1] = SP)})
      \* re.sub(r'\) +', ') ', text)
      t4 == Pick(t3, {i \in 1..Len(t3) :
                        ~(/\ t3[i] = SP
                          /\ RParenThenSpaces(t3, i)
                          /\ t3[i - 1] = SP)})
  IN t4

\* fix_sentence_endings without the test "already ends in a question ending"
fix_sentence_endings_AlwaysAsks(text) ==
  IF text = <<>> THEN text
  ELSE IF contains_korean(text) /\ ~EndsWithAny(text, proper_endings)
       THEN IF \E w \in 1..Len(question_words) :
                  Contains(Lower(text), question_words[w])
            THEN text \o QUESTION_SUFFIX
            ELSE IF ~EndsWithAny(text, honorific_endings)
                 THEN text \o POLITE_SUFFIX
                 ELSE text
       ELSE text

\* fix_sentence_endings without the branch that adds the polite ending
fix_sentence_endings_NoPolite(text) ==
  IF text = <<>> THEN text
  ELSE IF contains_korean(text) /\ ~EndsWithAny(text, proper_endings)
       THEN IF \E w \in 1..Len(question_words) :
                  Contains(Lower(text), question_words[w])
            THEN IF ~EndsWithAny(text, question_endings)
                 THEN text \o QUESTION_SUFFIX
                 ELSE text
            ELSE text
       ELSE text

fix_sentence_endings(text) ==
  IF text = <<>> THEN text
  ELSE IF contains_korean(text) /\ ~EndsWithAny(text, proper_endings)
       THEN IF \E w \in 1..Len(question_words) :
                  Contains(Lower(text), question_words[w])
            THEN IF ~EndsWithAny(text, question_endings)
                 THEN text \o QUESTION_SUFFIX
                 ELSE text
            ELSE IF ~EndsWithAny(text, honorific_endings)
                 THEN text \o POLITE_SUFFIX
                 ELSE text
       ELSE text

post_process_response(response) ==
  IF response = None \/ response = <<>> THEN response
  ELSE LET r1 == StripTokens(response)
           r2 == CollapseRuns(r1, NL)
           r3 == CollapseRuns(r2, SP)
           r4 == Strip(r3)
           r5 == fix_korean_spacing(r4)
       IN fix_sentence_endings(r5)

-----------------------------------------------------------------------------
(* Context builder: src/korean_utils.py                                    *)

\* the number of trailing messages chat_history[-10:] keeps
ContextWindow == 10

\* chat_history[:10], the first messages instead of the last
LastWindow_First(chat_history) ==
  SubSeq(chat_history, 1,
         IF Len(chat_history) > ContextWindow THEN ContextWindow
         ELSE Len(chat_history))

\* chat_history[-10:]
LastWindow(chat_history) ==
  SubSeq(chat_history,
         IF Len(chat_history) > ContextWindow
         THEN Len(chat_history) - ContextWindow + 1 ELSE 1,
         Len(chat_history))

\* one pass of the loop body: the block a (role, message) pair adds, if any
ContextBlock(entry) ==
  IF entry[1] = "user" THEN <<USER_OPEN \o entry[2] \o IM_END>>
  ELSE IF entry[1] = "assistant" THEN <<ASSISTANT_OPEN \o entry[2] \o IM_END>>
  ELSE <<>>

RECURSIVE ContextBlocks(_)
ContextBlocks(entries) ==
  IF entries = <<>> THEN <<>>
  ELSE ContextBlock(Head(entries)) \o ContextBlocks(Tail(entries))

\* prepare_chat_context adding the assistant start token only behind messages
prepare_chat_context_NoOpenOnEmpty(chat_history) ==
  Join(<<SYSTEM_BLOCK>> \o ContextBlocks(LastWindow(chat_history))
         \o (IF chat_history = <<>> THEN <<>> ELSE <<ASSISTANT_OPEN>>),
       <<NL>>)

prepare_chat_context(chat_history) ==
  Join(<<SYSTEM_BLOCK>> \o ContextBlocks(LastWindow(chat_history))
         \o <<ASSISTANT_OPEN>>,
       <<NL>>)

-----------------------------------------------------------------------------
(* Mock model client: src/app.py, class MockModelManager                   *)

\* "not x" for an Optional[str]: None and the empty string are falsy
Falsy(x) == x = None \/ x = <<>>

\* the last user message the clients cut out of a context:
\* context.split("user\n")[-1].split("<|im_end|>")[0].strip()
LastUserSegment(conversation_context) ==
  Strip(BeforeFirst(AfterLast(conversation_context, USER_NL), IM_END))

\* 0xAC00
MockHangulFirst == 44032
\* 0xD7A3
MockHangulLast == 55203

\* any(ord(char) >= 0xAC00 and ord(char) <= 0xD7A3 for char in text)
MockDetectsKorean(text) ==
  \E i \in 1..Len(text) :
    text[i] >= MockHangulFirst /\ text[i] <= MockHangulLast

korean_chat_responses(last_message) ==
  << KO1_PRE \o last_message \o KO1_POST,
     KO2_PRE \o last_message \o KO2_POST,
     KO3,
     KO4 >>

english_chat_responses(last_message) ==
  << EN1_PRE \o last_message \o EN1_POST,
     EN2_PRE \o last_message \o EN2_POST,
     EN3,
     EN4 >>

\* the indices random.choice draws from
MockChoices == 1..4

\* a mock client whose fourth response is the empty string
MockGenerateChatResponse_Silent(conversation_context, choice) ==
  LET last_message == IF Contains(conversation_context, USER_NL)
                      THEN LastUserSegment(conversation_context)
                      ELSE HELLO
  IN IF choice = 4 THEN <<>>
     ELSE IF MockDetectsKorean(last_message)
     THEN korean_chat_responses(last_message)[choice]
     ELSE english_chat_responses(last_message)[choice]

\* MockModelManager.generate_chat_response, with random.choice's draw as
\* the argument choice
MockGenerateChatResponse(conversation_context, choice) ==
  LET last_message == IF Contains(conversation_context, USER_NL)
                      THEN LastUserSegment(conversation_context)
                      ELSE HELLO
  IN IF MockDetectsKorean(last_message)
     THEN korean_chat_responses(last_message)[choice]
     ELSE english_chat_responses(last_message)[choice]

-----------------------------------------------------------------------------
(* HTTP model client: src/huggingface_model_manager.py                     *)

\* A response of the endpoint to one POST: status is the HTTP status code,
\* or 0 when requests.post, response.json() or the indexing of the body
\* raises; choices tells whether a 200 body holds a non-empty "choices"
\* list; content is choices[0].message.content.
Response(status, choices, content) ==
  [status |-> status, choices |-> choices, content |-> content]

\* no POST was issued
NoResponse == Response(-1, FALSE, <<>>)

\* an exception on its way out of a function, where a return value would be
Raised == <<-2>>

\* _make_chat_completion letting the exception leave (no "except Exception")
CatchException_Reraise(outcome) == outcome

\* the "try: ... except Exception: return None" around the whole body of
\* _make_chat_completion
CatchException(outcome) == IF outcome = Raised THEN None ELSE outcome

\* _make_chat_completion returning the content as the endpoint sent it
\* (no .strip())
RECURSIVE MakeChatCompletion_Untrimmed(_, _)
MakeChatCompletion_Untrimmed(script, posts) ==
  IF script = <<>>
  THEN [result |-> None, posts |-> posts, response |-> NoResponse]
  ELSE LET response == Head(script)
       IN IF response.status = 0
          THEN [result |-> CatchException(Raised), posts |-> posts + 1,
                response |-> response]
          ELSE IF response.status = 200
          THEN IF response.choices
               THEN [result |-> response.content, posts |-> posts + 1,
                     response |-> response]
               ELSE [result |-> None, posts |-> posts + 1,
                     response |-> response]
          ELSE IF response.status = 503
          THEN MakeChatCompletion_Untrimmed(Tail(script), posts + 1)
          ELSE [result |-> None, posts |-> posts + 1, response |-> response]

\* _make_chat_completion run against the responses the endpoint gives to the
\* successive POSTs of one call: the result, the number of POSTs issued and
\* the response that ended the call.
\* A 503 answer makes the function call itself again; when the endpoint
\* answers 503 to every request of the script, the recursion ends only at
\* the interpreter's recursion limit, where RecursionError is caught by
\* "except Exception" and None is returned.
RECURSIVE MakeChatCompletion(_, _)
MakeChatCompletion(script, posts) ==
  IF script = <<>>
  THEN [result |-> None, posts |-> posts, response |-> NoResponse]
  ELSE LET response == Head(script)
       IN IF response.status = 0
          THEN [result |-> CatchException(Raised), posts |-> posts + 1,
                response |-> response]
          ELSE IF response.status = 200
          THEN IF response.choices
               THEN [result |-> Strip(response.content), posts |-> posts + 1,
                     response |-> response]
               ELSE [result |-> None, posts |-> posts + 1,
                     response |-> response]
          ELSE IF response.status = 503
          THEN MakeChatCompletion(Tail(script), posts + 1)
          ELSE [result |-> None, posts |-> posts + 1, response |-> response]

\* generate_chat_response taking the first user message of the context
\* (split("user\n")[1])
HfLastMessage_FirstUser(conversation_context) ==
  IF Contains(conversation_context, USER_NL)
  THEN LET start == Len(BeforeFirst(conversation_context, USER_NL))
                      + Len(USER_NL) + 1
           rest == SubSeq(conversation_context, start, Len(conversation_context))
       IN Strip(BeforeFirst(rest, IM_END))
  ELSE conversation_context

\* the prompt generate_chat_response passes to _make_chat_completion
HfLastMessage(conversation_context) ==
  IF Contains(conversation_context, USER_NL)
  THEN LastUserSegment(conversation_context)
  ELSE conversation_context

-----------------------------------------------------------------------------
(* Session Store, as the specification describes it (section 4.1)          *)

\* the default title
DEFAULT_TITLE == << 78, 101, 119, 32, 67, 104, 97, 116 >>

\* the ellipsis that ends a truncated title
ELLIPSIS == << 46, 46, 46 >>

\* titles are cut to this many characters
TitleLimit == 30

\* the record of a new session
NewSession(id, isTemporary, t) ==
  [id |-> id, title |-> DEFAULT_TITLE, messages |-> << >>, createdAt |-> t,
   lastUpdatedAt |-> t, isTemporary |-> isTemporary]

\* the title derived from the first message without the ellipsis
DeriveTitle_NoEllipsis(content) ==
  IF Len(content) > TitleLimit THEN SubSeq(content, 1, TitleLimit) ELSE content

\* the title derived from the first message's content
DeriveTitle(content) ==
  IF Len(content) > TitleLimit
  THEN SubSeq(content, 1, TitleLimit) \o ELLIPSIS
  ELSE content

\* a session after addMessage(role, content) at time t
WithMessage(session, role, content, t) ==
  LET messages == Append(session.messages,
                         [role |-> role, content |-> content, timestamp |-> t])
  IN [session EXCEPT
        !.messages = messages,
        !.lastUpdatedAt = t,
        !.title = IF Len(messages) = 2 /\ role = "assistant"
                  THEN DeriveTitle(messages[1].content)
                  ELSE @]

\* the mapping without the session id
Without(mapping, id) == [k \in DOMAIN mapping \ {id} |-> mapping[k]]

\* the mapping with the record registered under id
With(mapping, id, record) ==
  [k \in DOMAIN mapping \cup {id} |-> IF k = id THEN record ELSE mapping[k]]

\* the ids deleteSession re-activates: the oldest remaining sessions
MostRecent_Oldest(mapping) ==
  { k \in DOMAIN mapping :
      \A j \in DOMAIN mapping :
        mapping[j].lastUpdatedAt >= mapping[k].lastUpdatedAt }

\* the ids of the most-recently-updated sessions of the mapping
MostRecent(mapping) ==
  { k \in DOMAIN mapping :
      \A j \in DOMAIN mapping :
        mapping[j].lastUpdatedAt <= mapping[k].lastUpdatedAt }

\* the sessions of the mapping ordered by createdAt, descending
RECURSIVE ListSessions_ByCreation(_)
ListSessions_ByCreation(mapping) ==
  IF DOMAIN mapping = {} THEN << >>
  ELSE LET k == CHOOSE i \in DOMAIN mapping :
                  \A j \in DOMAIN mapping :
                    \/ mapping[j].createdAt < mapping[i].createdAt
                    \/ mapping[j].createdAt = mapping[i].createdAt /\ i <= j
       IN << mapping[k] >> \o ListSessions_ByCreation(Without(mapping, k))

\* listSessions: the sessions of the mapping ordered by lastUpdatedAt,
\* descending; sessions updated at the same time stay in the order of the
\* mapping
RECURSIVE ListSessions(_)
ListSessions(mapping) ==
  IF DOMAIN mapping = {} THEN << >>
  ELSE LET k == CHOOSE i \in DOMAIN mapping :
                  \A j \in DOMAIN mapping :
                    \/ mapping[j].lastUpdatedAt < mapping[i].lastUpdatedAt
                    \/ mapping[j].lastUpdatedAt = mapping[i].lastUpdatedAt /\ i <= j
       IN << mapping[k] >> \o ListSessions(Without(mapping, k))

\* getActiveSession: the durable mapping first, then the temporary slot
GetActiveSession(mapping, slot, active) ==
  IF active \in DOMAIN mapping THEN << mapping[active] >>
  ELSE IF slot # << >> /\ slot[1].id = active THEN slot
  ELSE << >>

\* the record of a Session Store operation: its argument, what it returned,
\* whether its argument was the active id, and whether it follows a
\* deleteSession of the active session
StoreOp(name, arg, result, was_active, after_delete_active) ==
  [op |-> name, arg |-> arg, result |-> result, was_active |-> was_active,
   after_delete_active |-> after_delete_active]

-----------------------------------------------------------------------------
(* State                                                                   *)

VARIABLES
  language,        \* st.session_state.language: "ko" or "en"
  chat_history,    \* st.session_state.chat_history: sequence of <<role, message>>
  model_loaded,    \* st.session_state.model_loaded
  model_manager,   \* st.session_state.model_manager: NoManager or Manager
  last,            \* the operation that produced this state and its inputs
  ctx_in,          \* a history handed to prepare_chat_context
  context_out,     \* what prepare_chat_context returned for it (None: not called)
  pp_pieces,       \* the number of pieces pp_in is put together from
  pp_in,           \* a text handed to post_process_response
  pp_out,          \* what post_process_response returned for it (None: not called)
  pp_again,        \* what post_process_response returned for pp_out
  hf_model_loaded, \* HuggingFaceModelManager.model_loaded
  hf_posts,        \* POST requests issued by the client's last operation
  hf_result,       \* what the client's last operation returned
  hf_prompt,       \* the user-role content of the last request payload
  hf_context,      \* the context handed to the last generate_chat_response
  hf_final,        \* the response that ended the client's last call
  hf_last,         \* the client's last operation and what load_model returned
  det_in,          \* a text handed to the two Hangul tests
  det_korean,      \* <<contains_korean(det_in)>>, or <<>> before the call
  det_mock,        \* <<the mock generator's test of det_in>>, or <<>>
  fse_pieces,      \* the number of pieces fse_in is put together from
  fse_in,          \* a text handed to fix_sentence_endings
  fse_out,         \* what fix_sentence_endings returned for it (None: not called)
  sessions,        \* Session Store: the durable mapping, session id -> record
  temp_session,    \* Session Store: the temporary slot, <<>> or <<record>>
  active_id,       \* Session Store: the active session id, 0 for none
  next_id,         \* Session Store: the next fresh session id
  now,             \* the clock the Session Store reads its timestamps from
  store_steps,     \* the number of changing Session Store operations so far
  store_last       \* the Session Store's last operation and what it returned

vars == << language, chat_history, model_loaded, model_manager, last,
           ctx_in, context_out, pp_pieces, pp_in, pp_out, pp_again,
           hf_model_loaded, hf_posts, hf_result, hf_prompt, hf_context,
           hf_final,
           hf_last, det_in, det_korean, det_mock,
           fse_pieces, fse_in, fse_out,
           sessions, temp_session, active_id, next_id, now, store_steps,
           store_last >>

appVars == << language, chat_history, model_loaded, model_manager, last >>
ctxVars == << ctx_in, context_out >>
ppVars == << pp_pieces, pp_in, pp_out, pp_again >>
hfVars == << hf_model_loaded, hf_posts, hf_result, hf_prompt, hf_context, hf_final,
            hf_last >>
detVars == << det_in, det_korean, det_mock >>
fseVars == << fse_pieces, fse_in, fse_out >>
storeVars == << sessions, temp_session, active_id, next_id, now,
               store_steps, store_last >>
restVars == << detVars, fseVars, storeVars >>

\* st.session_state.model_manager = None
NoManager == "None"
\* st.session_state.model_manager = ModelManager()
Manager == "ModelManager"

-----------------------------------------------------------------------------
(* Bounds and input sets                                                   *)

\* process_chat_message is called on histories of fewer than MaxMessages entries
MaxMessages == 3
\* the context builder is given histories of at most MaxHistory entries
MaxHistory == 11
\* texts handed to post_process_response are built of at most MaxPieces pieces
MaxPieces == 3
\* the endpoint answers 503 at most MaxBusy times in a row
MaxBusy == 3
\* the Hangul tests are given texts of at most MaxChars characters
MaxChars == 3
\* texts handed to fix_sentence_endings are built of at most MaxEndingPieces
\* pieces
MaxEndingPieces == 3
\* the Session Store creates at most MaxSessions sessions
MaxSessions == 3
\* the Session Store goes through at most MaxStoreSteps changing operations
MaxStoreSteps == 5

\* the texts the user sends: "안녕", "<<||>||>"
UserInputs ==
  { <<50504, 45397>>, <<60, 60, 124, 124, 62, 124, 124, 62>> }

\* what the primary client returns: None, "", "Sure.", "<|endoftext|>"
PrimaryReturns ==
  { None, <<>>, <<83, 117, 114, 101, 46>>,
    <<60, 124, 101, 110, 100, 111, 102, 116, 101, 120, 116, 124, 62>> }

\* the outcomes of the primary client's generate_chat_response
PrimaryOutcomes ==
  {[raises |-> TRUE, value |-> None]}
    \cup {[raises |-> FALSE, value |-> v] : v \in PrimaryReturns}

\* the record of an operation: for process_chat_message, primary tells
\* whether the primary client was "skipped" (absent or not loaded), "failed"
\* (raised, or returned None or "") or "answered", and fault whether an
\* exception was raised between the two appends; input is its argument
Op(name) == [op |-> name, input |-> <<>>, primary |-> "skipped", fault |-> FALSE]

-----------------------------------------------------------------------------
(* Application: src/app.py and src/ui_components.py                        *)

\* the localized "failed to generate response" text
error_msg(lang) == IF lang = "ko" THEN ERR_KO ELSE ERR_EN

\* process_chat_message falling back only on None ("if response is None")
ProcessChatHistory_FallbackOnNone(history, loaded, manager, lang, user_input, primary, choice, fault) ==
  LET h1 == Append(history, <<"user", user_input>>)
      tried == loaded /\ manager # NoManager
      response0 == IF tried /\ ~primary.raises THEN primary.value ELSE None
      response == IF response0 = None
                  THEN MockGenerateChatResponse(prepare_chat_context(h1), choice)
                  ELSE response0
  IN IF fault THEN h1
     ELSE IF ~Falsy(response)
          THEN Append(h1, <<"assistant", post_process_response(response)>>)
          ELSE Append(h1, <<"assistant", error_msg(lang)>>)

\* process_chat_message assigning the history instead of appending to it
ProcessChatHistory_Assigns(history, loaded, manager, lang, user_input, primary, choice, fault) ==
  LET h1 == << <<"user", user_input>> >>
      tried == loaded /\ manager # NoManager
      response0 == IF tried /\ ~primary.raises THEN primary.value ELSE None
      response == IF Falsy(response0)
                  THEN MockGenerateChatResponse(prepare_chat_context(h1), choice)
                  ELSE response0
  IN IF fault THEN h1
     ELSE IF ~Falsy(response)
          THEN Append(h1, <<"assistant", post_process_response(response)>>)
          ELSE Append(h1, <<"assistant", error_msg(lang)>>)

\* process_chat_message storing the reply under the user's role
ProcessChatHistory_ReplyAsUser(history, loaded, manager, lang, user_input, primary, choice, fault) ==
  LET h1 == Append(history, <<"user", user_input>>)
      tried == loaded /\ manager # NoManager
      response0 == IF tried /\ ~primary.raises THEN primary.value ELSE None
      response == IF Falsy(response0)
                  THEN MockGenerateChatResponse(prepare_chat_context(h1), choice)
                  ELSE response0
  IN IF fault THEN h1
     ELSE IF ~Falsy(response)
          THEN Append(h1, <<"user", post_process_response(response)>>)
          ELSE Append(h1, <<"assistant", error_msg(lang)>>)

\* process_chat_message whose exception handler stores its error text as the
\* assistant's message
ProcessChatHistory_FaultStoresError(history, loaded, manager, lang, user_input, primary, choice, fault) ==
  LET h1 == Append(history, <<"user", user_input>>)
      tried == loaded /\ manager # NoManager
      response0 == IF tried /\ ~primary.raises THEN primary.value ELSE None
      response == IF Falsy(response0)
                  THEN MockGenerateChatResponse(prepare_chat_context(h1), choice)
                  ELSE response0
  IN IF fault THEN Append(h1, <<"assistant", error_msg(lang)>>)
     ELSE IF ~Falsy(response)
          THEN Append(h1, <<"assistant", post_process_response(response)>>)
          ELSE Append(h1, <<"assistant", error_msg(lang)>>)

\* the history process_chat_message leaves.  primary is the outcome of the
\* primary client's call, choice the draw of the mock client, fault whether
\* an exception is raised between the two appends.
ProcessChatHistory(history, loaded, manager, lang, user_input, primary, choice, fault) ==
  LET h1 == Append(history, <<"user", user_input>>)
      tried == loaded /\ manager # NoManager
      response0 == IF tried /\ ~primary.raises THEN primary.value ELSE None
      response == IF Falsy(response0)
                  THEN MockGenerateChatResponse(prepare_chat_context(h1), choice)
                  ELSE response0
  IN IF fault THEN h1
     ELSE IF ~Falsy(response)
          THEN Append(h1, <<"assistant", post_process_response(response)>>)
          ELSE Append(h1, <<"assistant", error_msg(lang)>>)

process_chat_message(user_input, primary, choice, fault) ==
  /\ Len(chat_history) < MaxMessages
  /\ LET tried == model_loaded /\ model_manager # NoManager
         failed == primary.raises \/ Falsy(primary.value)
     IN \* the inputs that are not read are not enumerated
        /\ (~tried \/ fault) => primary = [raises |-> FALSE, value |-> None]
        /\ (fault \/ (tried /\ ~failed)) => choice = 1
        /\ last' = [op |-> "chat",
                    input |-> user_input,
                    primary |-> IF ~tried THEN "skipped"
                                ELSE IF failed THEN "failed" ELSE "answered",
                    fault |-> fault]
  /\ chat_history' = ProcessChatHistory(chat_history, model_loaded, model_manager,
                                        language, user_input, primary, choice, fault)
  /\ UNCHANGED << language, model_loaded, model_manager >>
  /\ UNCHANGED << ctxVars, ppVars, hfVars, restVars >>

\* main: the language toggle button
toggle_language ==
  /\ language' = IF language = "en" THEN "ko" ELSE "en"
  /\ last' = Op("toggle")
  /\ UNCHANGED << chat_history, model_loaded, model_manager >>
  /\ UNCHANGED << ctxVars, ppVars, hfVars, restVars >>

\* UIComponents.render_chat_controls: the clear-chat button
clear_chat ==
  /\ chat_history' = <<>>
  /\ last' = Op("clear")
  /\ UNCHANGED << language, model_loaded, model_manager >>
  /\ UNCHANGED << ctxVars, ppVars, hfVars, restVars >>

\* load_model setting model_loaded before it constructs the manager
load_model_LoadedFirst(outcome) ==
  /\ ~model_loaded
  /\ model_manager' = IF outcome = "raised_early" THEN model_manager ELSE Manager
  /\ model_loaded' = TRUE
  /\ last' = Op(IF outcome = "ok" THEN "load_ok" ELSE "load_failed")
  /\ UNCHANGED << language, chat_history >>
  /\ UNCHANGED << ctxVars, ppVars, hfVars, restVars >>

\* load_model starting a new conversation
load_model_ClearsChat(outcome) ==
  /\ ~model_loaded
  /\ model_manager' = IF outcome = "raised_early" THEN model_manager ELSE Manager
  /\ model_loaded' = IF outcome = "ok" THEN TRUE ELSE model_loaded
  /\ last' = Op(IF outcome = "ok" THEN "load_ok" ELSE "load_failed")
  /\ chat_history' = <<>>
  /\ UNCHANGED language
  /\ UNCHANGED << ctxVars, ppVars, hfVars, restVars >>

\* load_model, behind the button shown while model_loaded is false.  outcome
\* is what happens inside: model_manager.load_model returns True ("ok"),
\* returns False ("failed") or raises ("raised"), or an exception is raised
\* before the manager is constructed ("raised_early").
load_model(outcome) ==
  /\ ~model_loaded
  /\ model_manager' = IF outcome = "raised_early" THEN model_manager ELSE Manager
  /\ model_loaded' = IF outcome = "ok" THEN TRUE ELSE model_loaded
  /\ last' = Op(IF outcome = "ok" THEN "load_ok" ELSE "load_failed")
  /\ UNCHANGED << language, chat_history >>
  /\ UNCHANGED << ctxVars, ppVars, hfVars, restVars >>

\* reload_model, behind the button shown while model_loaded is true
reload_model ==
  /\ model_loaded
  /\ model_loaded' = FALSE
  /\ model_manager' = NoManager
  /\ last' = Op("reload")
  /\ UNCHANGED << language, chat_history >>
  /\ UNCHANGED << ctxVars, ppVars, hfVars, restVars >>

Init ==
  /\ language = "ko"
  /\ chat_history = <<>>
  /\ model_loaded = FALSE
  /\ model_manager = NoManager
  /\ last = Op("init")
  /\ ctx_in = <<>>
  /\ context_out = None
  /\ pp_pieces = 0
  /\ pp_in = <<>>
  /\ pp_out = None
  /\ pp_again = None
  /\ hf_model_loaded = FALSE
  /\ hf_posts = 0
  /\ hf_result = None
  /\ hf_prompt = None
  /\ hf_context = None
  /\ hf_final = NoResponse
  /\ hf_last = [op |-> "init", ok |-> FALSE]
  /\ det_in = <<>>
  /\ det_korean = <<>>
  /\ det_mock = <<>>
  /\ fse_pieces = 0
  /\ fse_in = <<>>
  /\ fse_out = None
  /\ sessions = << >>
  /\ temp_session = << >>
  /\ active_id = 0
  /\ next_id = 1
  /\ now = 0
  /\ store_steps = 0
  /\ store_last = StoreOp("init", 0, << >>, FALSE, FALSE)

Next ==
  \/ \E user_input \in UserInputs, primary \in PrimaryOutcomes,
        choice \in MockChoices, fault \in BOOLEAN :
       process_chat_message(user_input, primary, choice, fault)
  \/ toggle_language
  \/ clear_chat
  \/ \E outcome \in {"ok", "failed", "raised", "raised_early"} : load_model(outcome)
  \/ reload_model

Spec == Init /\ [][Next]_vars

-----------------------------------------------------------------------------
(* process_chat_message without a primary client, on inputs of both        *)
(* languages                                                               *)

\* the texts the user sends: "안녕", "hi", "hi<|im_end|>안녕"
LanguageInputs ==
  { <<50504, 45397>>, <<104, 105>>,
    <<104, 105>> \o IM_END \o <<50504, 45397>> }

\* no model is ever loaded: every reply comes from the mock client
NextFallback ==
  \/ \E user_input \in LanguageInputs, choice \in MockChoices :
       process_chat_message(user_input, [raises |-> FALSE, value |-> None],
                            choice, FALSE)
  \/ clear_chat

SpecFallback == Init /\ [][NextFallback]_vars

-----------------------------------------------------------------------------
(* prepare_chat_context on the histories of user and assistant messages    *)

\* the message at position k of a history: "m" and the two digits of k, so
\* that the messages of one history are pairwise different and none is part
\* of another
MessageText(k) == <<109, 48 + (k \div 10), 48 + (k % 10)>>

ctx_append(role) ==
  /\ Len(ctx_in) < MaxHistory
  /\ ctx_in' = Append(ctx_in, <<role, MessageText(Len(ctx_in) + 1)>>)
  /\ context_out' = None
  /\ UNCHANGED << appVars, ppVars, hfVars, restVars >>

ctx_call ==
  /\ context_out = None
  /\ context_out' = prepare_chat_context(ctx_in)
  /\ UNCHANGED << ctx_in, appVars, ppVars, hfVars, restVars >>

NextCtx ==
  \/ \E role \in {"user", "assistant"} : ctx_append(role)
  \/ ctx_call

SpecCtx == Init /\ [][NextCtx]_vars

-----------------------------------------------------------------------------
(* post_process_response on texts put together from a few pieces           *)

\* "<", "<|im_end|>", "|x|>", " ", "\n", ",", ".", "(", ")", "a", "안녕", "왜",
\* "나요"
Pieces ==
  { <<60>>, <<60, 124, 105, 109, 95, 101, 110, 100, 124, 62>>,
    <<124, 120, 124, 62>>, <<32>>, <<10>>, <<44>>, <<46>>, <<40>>, <<41>>,
    <<97>>, <<50504, 45397>>, <<50780>>, <<45208, 50836>> }

pp_append(piece) ==
  /\ pp_out = None
  /\ pp_pieces < MaxPieces
  /\ pp_pieces' = pp_pieces + 1
  /\ pp_in' = pp_in \o piece
  /\ UNCHANGED << pp_out, pp_again, appVars, ctxVars, hfVars, restVars >>

pp_call ==
  /\ pp_out = None
  /\ pp_out' = post_process_response(pp_in)
  /\ UNCHANGED << pp_pieces, pp_in, pp_again, appVars, ctxVars, hfVars, restVars >>

pp_call_again ==
  /\ pp_out # None
  /\ pp_again = None
  /\ pp_again' = post_process_response(pp_out)
  /\ UNCHANGED << pp_pieces, pp_in, pp_out, appVars, ctxVars, hfVars, restVars >>

NextPost ==
  \/ \E piece \in Pieces : pp_append(piece)
  \/ pp_call
  \/ pp_call_again

SpecPost == Init /\ [][NextPost]_vars

-----------------------------------------------------------------------------
(* The HTTP client against an endpoint that answers as it likes            *)

\* the answers that end a call: 200 with content " hi ", "" or "안녕", 200
\* without choices, 404, 400, 500, and a request or a body that raises
FinalResponses ==
  { Response(200, TRUE, <<32, 104, 105, 32>>),
    Response(200, TRUE, <<>>),
    Response(200, TRUE, <<50504, 45397>>),
    Response(200, FALSE, <<>>),
    Response(404, FALSE, <<>>),
    Response(400, FALSE, <<>>),
    Response(500, FALSE, <<>>),
    Response(0, FALSE, <<>>) }

\* the answer "model loading"
Busy == Response(503, FALSE, <<>>)

\* the answers to the POSTs of one call: 503 a number of times, then an
\* answer that ends the call
Scripts ==
  { [i \in 1..(busy + 1) |-> IF i <= busy THEN Busy ELSE final] :
      busy \in 0..MaxBusy, final \in FinalResponses }

\* the contexts handed to generate_chat_response: those of the one-message
\* histories of the user inputs, the bare text "hi", and those of the
\* histories of a user input, the reply "ok" and the user's " 안녕 "
HfContexts ==
  { prepare_chat_context(<< <<"user", u>> >>) : u \in UserInputs }
    \cup { <<104, 105>> }
    \cup { prepare_chat_context(<< <<"user", u>>, <<"assistant", <<111, 107>>>>,
                                  <<"user", <<32, 50504, 45397, 32>>>> >>) :
             u \in UserInputs }

\* HuggingFaceModelManager.load_model; the GET of the health check changes
\* nothing and its failure is swallowed
hf_load_model(script) ==
  LET test_response == MakeChatCompletion(script, 0)
  IN /\ hf_prompt' = HELLO
     /\ hf_context' = None
     /\ hf_posts' = test_response.posts
     /\ hf_result' = test_response.result
     /\ hf_final' = test_response.response
     /\ IF ~Falsy(test_response.result)
        THEN /\ hf_model_loaded' = TRUE
             /\ hf_last' = [op |-> "load_model", ok |-> TRUE]
        ELSE /\ hf_model_loaded' = hf_model_loaded
             /\ hf_last' = [op |-> "load_model", ok |-> FALSE]
     /\ UNCHANGED << appVars, ctxVars, ppVars, restVars >>

\* HuggingFaceModelManager.generate_chat_response
hf_generate_chat_response(conversation_context, script) ==
  /\ IF ~hf_model_loaded
     THEN /\ hf_posts' = 0
          /\ hf_result' = None
          /\ hf_prompt' = None
          /\ hf_final' = NoResponse
     ELSE LET r == MakeChatCompletion(script, 0)
          IN /\ hf_posts' = r.posts
             /\ hf_result' = r.result
             /\ hf_final' = r.response
             /\ hf_prompt' = HfLastMessage(conversation_context)
  /\ hf_context' = conversation_context
  /\ hf_last' = [op |-> "generate_chat_response", ok |-> FALSE]
  /\ UNCHANGED << hf_model_loaded, appVars, ctxVars, ppVars, restVars >>

\* generate_text without the test of model_loaded
hf_generate_text_Unguarded(prompt, script) ==
  /\ LET r == MakeChatCompletion(script, 0)
     IN /\ hf_posts' = r.posts
        /\ hf_result' = r.result
        /\ hf_final' = r.response
        /\ hf_prompt' = prompt
  /\ hf_context' = None
  /\ hf_last' = [op |-> "generate_text", ok |-> FALSE]
  /\ UNCHANGED << hf_model_loaded, appVars, ctxVars, ppVars, restVars >>

\* HuggingFaceModelManager.generate_text
hf_generate_text(prompt, script) ==
  /\ IF ~hf_model_loaded
     THEN /\ hf_posts' = 0
          /\ hf_result' = None
          /\ hf_prompt' = None
          /\ hf_final' = NoResponse
     ELSE LET r == MakeChatCompletion(script, 0)
          IN /\ hf_posts' = r.posts
             /\ hf_result' = r.result
             /\ hf_final' = r.response
             /\ hf_prompt' = prompt
  /\ hf_context' = None
  /\ hf_last' = [op |-> "generate_text", ok |-> FALSE]
  /\ UNCHANGED << hf_model_loaded, appVars, ctxVars, ppVars, restVars >>

\* HuggingFaceModelManager.cleanup
hf_cleanup ==
  /\ hf_model_loaded' = FALSE
  /\ hf_last' = [op |-> "cleanup", ok |-> FALSE]
  /\ UNCHANGED << hf_posts, hf_result, hf_prompt, hf_context, hf_final, appVars, ctxVars, ppVars, restVars >>

NextHttp ==
  \/ \E script \in Scripts : hf_load_model(script)
  \/ \E ctx \in HfContexts, script \in Scripts :
       hf_generate_chat_response(ctx, script)
  \/ \E prompt \in UserInputs, script \in Scripts :
       hf_generate_text(prompt, script)
  \/ hf_cleanup

SpecHttp == Init /\ [][NextHttp]_vars

-----------------------------------------------------------------------------
(* The two Hangul tests on texts around the ends of the syllable block     *)

\* the characters before, at and after both ends of [가-힣], '안', 'a', ' '
DetectChars ==
  { HangulFirst - 1, HangulFirst, 50504, HangulLast, HangulLast + 1, 97, 32 }

det_append(c) ==
  /\ det_korean = <<>>
  /\ det_mock = <<>>
  /\ Len(det_in) < MaxChars
  /\ det_in' = Append(det_in, c)
  /\ UNCHANGED << det_korean, det_mock, appVars, ctxVars, ppVars, hfVars, fseVars, storeVars >>

\* KoreanTextProcessor.contains_korean
det_contains_korean ==
  /\ det_korean = <<>>
  /\ det_korean' = << contains_korean(det_in) >>
  /\ UNCHANGED << det_in, det_mock, appVars, ctxVars, ppVars, hfVars, fseVars, storeVars >>

\* the language test of MockModelManager.generate_chat_response
det_mock_detects ==
  /\ det_mock = <<>>
  /\ det_mock' = << MockDetectsKorean(det_in) >>
  /\ UNCHANGED << det_in, det_korean, appVars, ctxVars, ppVars, hfVars, fseVars, storeVars >>

NextDetect ==
  \/ \E c \in DetectChars : det_append(c)
  \/ det_contains_korean
  \/ det_mock_detects

SpecDetect == Init /\ [][NextDetect]_vars

-----------------------------------------------------------------------------
(* fix_sentence_endings on texts put together from words and endings       *)

\* "왜", "가", "나요", "드립니다", "습니다", "어요", ".", "WHY", " ", "a"
EndingPieces ==
  { <<50780>>, <<44032>>, <<45208, 50836>>, <<46300, 47549, 45768, 45796>>,
    <<49845, 45768, 45796>>, <<50612, 50836>>, <<46>>, <<87, 72, 89>>,
    <<32>>, <<97>> }

fse_append(piece) ==
  /\ fse_out = None
  /\ fse_pieces < MaxEndingPieces
  /\ fse_pieces' = fse_pieces + 1
  /\ fse_in' = fse_in \o piece
  /\ UNCHANGED << fse_out, appVars, ctxVars, ppVars, hfVars, detVars, storeVars >>

\* KoreanTextProcessor.fix_sentence_endings
fse_call ==
  /\ fse_out = None
  /\ fse_out' = fix_sentence_endings(fse_in)
  /\ UNCHANGED << fse_pieces, fse_in, appVars, ctxVars, ppVars, hfVars, detVars, storeVars >>

NextEndings ==
  \/ \E piece \in EndingPieces : fse_append(piece)
  \/ fse_call

SpecEndings == Init /\ [][NextEndings]_vars

-----------------------------------------------------------------------------
(* The Session Store under creations, appends, switches and deletions      *)

\* the first message of a session: 30 times "a", and 31 times "a"
FirstContents ==
  { [i \in 1..TitleLimit |-> 97], [i \in 1..(TitleLimit + 1) |-> 97] }

\* every later message: "ok"
LaterContent == << 111, 107 >>

\* the last operation was a deleteSession of the active session
DeletedActive == store_last.op = "deleteSession" /\ store_last.was_active

\* the times a changing operation can read: the clock has moved or has not
Times == { now, now + 1 }

createSession(isTemporary, t) ==
  /\ store_steps < MaxStoreSteps
  /\ next_id <= MaxSessions
  /\ LET record == NewSession(next_id, isTemporary, t)
     IN /\ IF isTemporary
           THEN /\ temp_session' = << record >>
                /\ sessions' = sessions
           ELSE /\ sessions' = With(sessions, next_id, record)
                /\ temp_session' = temp_session
        /\ store_last' = StoreOp("createSession", next_id, << record >>,
                                 FALSE, FALSE)
  /\ active_id' = next_id
  /\ next_id' = next_id + 1
  /\ now' = t
  /\ store_steps' = store_steps + 1
  /\ UNCHANGED << appVars, ctxVars, ppVars, hfVars, detVars, fseVars >>

getActiveSession ==
  /\ store_last' = StoreOp("getActiveSession", active_id,
                           GetActiveSession(sessions, temp_session, active_id),
                           FALSE, DeletedActive)
  /\ UNCHANGED << sessions, temp_session, active_id, next_id, now, store_steps >>
  /\ UNCHANGED << appVars, ctxVars, ppVars, hfVars, detVars, fseVars >>

switchSession(id) ==
  /\ store_steps < MaxStoreSteps
  /\ active_id' = IF id \in DOMAIN sessions THEN id ELSE active_id
  /\ store_last' = StoreOp("switchSession", id, << id \in DOMAIN sessions >>,
                           id = active_id, FALSE)
  /\ store_steps' = store_steps + 1
  /\ UNCHANGED << sessions, temp_session, next_id, now >>
  /\ UNCHANGED << appVars, ctxVars, ppVars, hfVars, detVars, fseVars >>

addMessage(role, content, t) ==
  /\ store_steps < MaxStoreSteps
  /\ LET active == GetActiveSession(sessions, temp_session, active_id)
     IN \* the content of a first message is one of FirstContents, of a later
        \* message LaterContent
        /\ IF active # << >> /\ active[1].messages = << >>
           THEN content \in FirstContents
           ELSE content = LaterContent
        /\ IF active = << >>
           THEN UNCHANGED << sessions, temp_session, now >>
           ELSE /\ now' = t
                /\ IF active_id \in DOMAIN sessions
                   THEN /\ sessions' = With(sessions, active_id,
                                            WithMessage(active[1], role, content, t))
                        /\ temp_session' = temp_session
                   ELSE /\ temp_session' = << WithMessage(active[1], role, content, t) >>
                        /\ sessions' = sessions
        /\ active = << >> => t = now
  /\ store_last' = StoreOp("addMessage", active_id, << >>, FALSE, FALSE)
  /\ store_steps' = store_steps + 1
  /\ UNCHANGED << active_id, next_id >>
  /\ UNCHANGED << appVars, ctxVars, ppVars, hfVars, detVars, fseVars >>

\* deleteSession; chosen is the session that becomes active when the active
\* one is deleted and several remaining ones are the most recent
deleteSession(id, chosen) ==
  /\ store_steps < MaxStoreSteps
  /\ LET remaining == Without(sessions, id)
     IN /\ sessions' = remaining
        /\ IF id = active_id
           THEN IF DOMAIN remaining = {}
                THEN chosen = 0 /\ active_id' = 0
                ELSE chosen \in MostRecent(remaining) /\ active_id' = chosen
           ELSE chosen = 0 /\ active_id' = active_id
  /\ store_last' = StoreOp("deleteSession", id, << >>, id = active_id, FALSE)
  /\ store_steps' = store_steps + 1
  /\ UNCHANGED << temp_session, next_id, now >>
  /\ UNCHANGED << appVars, ctxVars, ppVars, hfVars, detVars, fseVars >>

listSessions ==
  /\ store_last' = StoreOp("listSessions", 0, ListSessions(sessions),
                           FALSE, FALSE)
  /\ UNCHANGED << sessions, temp_session, active_id, next_id, now, store_steps >>
  /\ UNCHANGED << appVars, ctxVars, ppVars, hfVars, detVars, fseVars >>

NextStore ==
  \/ \E isTemporary \in BOOLEAN, t \in Times : createSession(isTemporary, t)
  \/ getActiveSession
  \/ \E id \in 1..MaxSessions : switchSession(id)
  \/ \E role \in {"user", "assistant"},
        content \in FirstContents \cup {LaterContent}, t \in Times :
       addMessage(role, content, t)
  \/ \E id \in 1..MaxSessions, chosen \in 0..MaxSessions :
       deleteSession(id, chosen)
  \/ listSessions

SpecStore == Init /\ [][NextStore]_vars

-----------------------------------------------------------------------------
(* Properties                                                              *)

\* "<|im_start|>", the marker that opens every block of a context
IM_START == << 60, 124, 105, 109, 95, 115, 116, 97, 114, 116, 124, 62 >>

\* the role of a history entry as the text that names it in a block
RoleText(role) ==
  IF role = "user" THEN << 117, 115, 101, 114 >>
  ELSE << 97, 115, 115, 105, 115, 116, 97, 110, 116 >>

\* s holds a bracketed pipe-delimited token <|...|>
HasMarker(s) ==
  \E i \in 1..Len(s), j \in 1..Len(s) :
    /\ j >= i + 2
    /\ StartsWithAt(s, i, <<LT, PIPE>>)
    /\ StartsWithAt(s, j, <<PIPE, GT>>)

\* message is a reply of the mock client to a history that ends with the
\* user's message, as process_chat_message stores it
IsMockReply(message, history) ==
  \E choice \in MockChoices :
    message = post_process_response(
                MockGenerateChatResponse(prepare_chat_context(history), choice))

\* the k-th smallest element of a set of numbers
Kth(S, k) == CHOOSE x \in S : Cardinality({y \in S : y <= x}) = k

\* C1: whenever process_chat_message runs and the primary client is absent
\* or not loaded (skipped), raises, or returns None or "" (failed), the
\* history ends with the user's message followed by an assistant message
\* that is one of the mock client's replies to that history.
C1_FallbackReplies ==
  (last.op = "chat" /\ ~last.fault /\ last.primary \in {"skipped", "failed"}) =>
    LET n == Len(chat_history)
    IN /\ n >= 2
       /\ chat_history[n - 1] = <<"user", last.input>>
       /\ chat_history[n][1] = "assistant"
       /\ IsMockReply(chat_history[n][2], SubSeq(chat_history, 1, n - 1))

\* C1's case: a loaded primary client failed and the turn was completed
C1_Witness ==
  /\ last.op = "chat"
  /\ last.primary = "failed"
  /\ ~last.fault
  /\ model_loaded
  /\ Len(chat_history) >= 2

\* C2: a process_chat_message that completes without an internal exception
\* extends chat_history by exactly two entries, (user, input) and then
\* (assistant, processed reply), and the old history is a prefix of the new.
C2_TurnAppendsTwo ==
  [][ (last'.op = "chat" /\ ~last'.fault) =>
        LET n == Len(chat_history)
        IN /\ Len(chat_history') = n + 2
           /\ SubSeq(chat_history', 1, n) = chat_history
           /\ chat_history'[n + 1] = <<"user", last'.input>>
           /\ chat_history'[n + 2][1] = "assistant"
           /\ IF last'.primary = "answered"
              THEN \E v \in PrimaryReturns :
                     /\ ~Falsy(v)
                     /\ chat_history'[n + 2][2] = post_process_response(v)
              ELSE IsMockReply(chat_history'[n + 2][2],
                               SubSeq(chat_history', 1, n + 1)) ]_vars

\* C2's case: a completed turn on a history that already held a turn
C2_Witness ==
  /\ last.op = "chat"
  /\ ~last.fault
  /\ Len(chat_history) = 4

\* chat_history has even length and its roles go user, assistant, user, ...
Alternates(history) ==
  /\ Len(history) % 2 = 0
  /\ \A i \in 1..Len(history) :
       history[i][1] = (IF i % 2 = 1 THEN "user" ELSE "assistant")

\* C3: under normal flow chat_history has even length and strictly
\* alternating roles starting with user: it does so initially, and every
\* operation (process_chat_message without an internal exception, clear
\* chat, language toggle, load_model, reload_model) keeps it so.
C3_RolesAlternate ==
  /\ Alternates(chat_history)
  /\ [][ (Alternates(chat_history) /\ ~last'.fault)
           => Alternates(chat_history') ]_vars

\* C3's case: two completed turns, alternating, and a later operation
C3_Witness ==
  /\ Len(chat_history) = 4
  /\ Alternates(chat_history)
  /\ last.op \in {"toggle", "load_ok", "load_failed", "reload"}

\* C4: prepare_chat_context emits blocks for exactly the last
\* min(10, len(history)) messages, in order, each as
\* <|im_start|>ROLE\nCONTENT<|im_end|> with its own role, and no message
\* older than the last 10 appears in the output.
C4_LastTenBlocks ==
  context_out # None =>
    LET n == Len(ctx_in)
        w == IF n < 10 THEN n ELSE 10
        starts == {i \in 1..Len(context_out) : StartsWithAt(context_out, i, IM_START)}
        \* the k-th block: from its marker to the line break before the next
        block(k) == SubSeq(context_out, Kth(starts, k), Kth(starts, k + 1) - 2)
    IN /\ Cardinality(starts) = w + 2
       /\ \A k \in 1..w :
            block(k + 1) = IM_START \o RoleText(ctx_in[n - w + k][1]) \o <<NL>>
                             \o ctx_in[n - w + k][2] \o IM_END
       /\ \A j \in 1..(n - w) : ~Contains(context_out, ctx_in[j][2])

\* C4's case: a history longer than the window, with both roles in it
C4_Witness ==
  /\ context_out # None
  /\ Len(ctx_in) = 11
  /\ ctx_in[1][1] = "user"
  /\ ctx_in[2][1] = "assistant"
  /\ ctx_in[11][1] = "user"

\* C5: for every history, the empty one included, the output begins with
\* the system block and ends with the open marker "<|im_start|>assistant\n",
\* behind which no <|im_end|> follows; every message block lies between.
C5_SystemFirstOpenLast ==
  context_out # None =>
    LET n == Len(ctx_in)
        open == Len(context_out) - Len(ASSISTANT_OPEN) + 1
        between == SubSeq(context_out, Len(SYSTEM_BLOCK) + 1, open - 1)
    IN /\ StartsWithAt(context_out, 1, SYSTEM_BLOCK)
       /\ EndsWith(context_out, ASSISTANT_OPEN)
       /\ open > Len(SYSTEM_BLOCK)
       /\ \A i \in 1..Len(context_out) :
            /\ StartsWithAt(context_out, i, IM_END) => i < open
            /\ StartsWithAt(context_out, i, IM_START) =>
                 i = 1 \/ i = open \/ (i > Len(SYSTEM_BLOCK) /\ i < open)
       /\ \A k \in 1..n :
            Contains(context_out, ctx_in[k][2]) =>
              Contains(between, IM_START \o RoleText(ctx_in[k][1]) \o <<NL>>
                                  \o ctx_in[k][2] \o IM_END)

\* C5's case: the context of the empty history
C5_Witness ==
  /\ context_out # None
  /\ ctx_in = <<>>

\* C7: no assistant message stored by process_chat_message holds a token of
\* the form <|...|>, because post_process_response strips them all.
C7_NoRoleMarkers ==
  \A i \in 1..Len(chat_history) :
    chat_history[i][1] = "assistant" => ~HasMarker(chat_history[i][2])

\* C8: for a text without role-marker tokens a second pass of
\* post_process_response changes nothing.
C8_Idempotent ==
  (pp_again # None /\ ~HasMarker(pp_in)) => pp_again = pp_out

\* C9: every assistant message process_chat_message appends is non-empty.
C9_NonEmptyReplies ==
  \A i \in 1..Len(chat_history) :
    chat_history[i][1] = "assistant" => chat_history[i][2] # <<>>

\* C10: one call of _make_chat_completion issues at most two POST requests.
C10_AtMostTwoPosts == hf_posts <= 2

\* r is c without its leading and trailing whitespace
IsTrimOf(r, c) ==
  /\ \E a \in 0..Len(c) :
       /\ a + Len(r) <= Len(c)
       /\ SubSeq(c, a + 1, a + Len(r)) = r
       /\ \A k \in 1..Len(c) : (k <= a \/ k > a + Len(r)) => IsSpace(c[k])
  /\ r # <<>> => (~IsSpace(r[1]) /\ ~IsSpace(r[Len(r)]))

\* C11: whenever a call of the HTTP client has issued a request, its result
\* follows from the response that ended the call: status 200 with a
\* non-empty choices list gives choices[0].message.content trimmed, status
\* 200 without choices gives none, and every status other than 200 and 503
\* gives none.
C11_StatusMapsToResult ==
  hf_posts > 0 =>
    /\ (hf_final.status = 200 /\ hf_final.choices)
         => IsTrimOf(hf_result, hf_final.content)
    /\ (hf_final.status = 200 /\ ~hf_final.choices) => hf_result = None
    /\ hf_final.status \notin {0, 200, 503} => hf_result = None

\* a call that was answered 503 and then 200 with content " hi " returned "hi"
C11_Witness ==
  /\ hf_posts = 2
  /\ hf_final = Response(200, TRUE, <<32, 104, 105, 32>>)
  /\ hf_result = <<104, 105>>

\* C12: when sending the request or reading the response raises during
\* generate_chat_response, the call returns none; the exception does not
\* leave the client.
C12_TransportErrorsGiveNone ==
  (hf_last.op = "generate_chat_response" /\ hf_posts > 0 /\ hf_final.status = 0)
    => hf_result = None

\* generate_chat_response of a loaded client whose request raised
C12_Witness ==
  /\ hf_last.op = "generate_chat_response"
  /\ hf_posts > 0
  /\ hf_final.status = 0
  /\ hf_model_loaded

\* C15: right after a load_model call is_loaded() equals the value the call
\* returned, and generate_chat_response called after a load_model that
\* returned false returns none.
C15_LoadReturnsUsable ==
  /\ [][hf_last'.op = "load_model" => hf_model_loaded' = hf_last'.ok]_vars
  /\ [][(/\ hf_last.op = "load_model"
         /\ ~hf_last.ok
         /\ hf_last'.op = "generate_chat_response") => hf_result' = None]_vars

\* C17: contains_korean(text) is true exactly when some character of text
\* lies in U+AC00..U+D7A3, and the mock generator's character-range test of
\* the same text gives the same answer.
C17_HangulDetectionExact ==
  /\ det_korean # <<>> =>
       (det_korean[1] <=>
          \E i \in 1..Len(det_in) :
            /\ det_in[i] >= 172 * 256
            /\ det_in[i] <= 215 * 256 + 163)
  /\ (det_korean # <<>> /\ det_mock # <<>>) => det_korean = det_mock

\* both tests have answered for a text whose only Hangul syllable is U+D7A3
C17_Witness ==
  /\ det_in = <<97, 55203, 55204>>
  /\ det_korean = <<TRUE>>
  /\ det_mock = <<TRUE>>

\* message is a reply of the mock client's Korean response set to a history
\* that ends with the user's message, as process_chat_message stores it
FromKoreanSet(message, history) ==
  \E choice \in MockChoices :
    message = post_process_response(
                korean_chat_responses(
                  LastUserSegment(prepare_chat_context(history)))[choice])

\* C13: in the fallback path of process_chat_message the stored reply comes
\* from the Korean response set if and only if the user's input contains a
\* Hangul syllable.
C13_ReplyLanguageFollowsInput ==
  (last.op = "chat" /\ ~last.fault /\ last.primary \in {"skipped", "failed"}) =>
    LET n == Len(chat_history)
    IN FromKoreanSet(chat_history[n][2], SubSeq(chat_history, 1, n - 1))
         <=> contains_korean(last.input)

\* text contains a Hangul syllable
HasHangul(text) ==
  \E i \in 1..Len(text) : text[i] >= 172 * 256 /\ text[i] <= 215 * 256 + 163

\* text ends in '.', '!' or '?'
EndsInTerminalPunctuation(text) ==
  text # <<>> /\ text[Len(text)] \in {46, 33, 63}

\* text ends in one of the polite endings 습니다, 입니다, 어요, 아요, 에요
EndsInPoliteEnding(text) ==
  \/ EndsWith(text, <<49845, 45768, 45796>>)
  \/ EndsWith(text, <<51077, 45768, 45796>>)
  \/ EndsWith(text, <<50612, 50836>>)
  \/ EndsWith(text, <<50500, 50836>>)
  \/ EndsWith(text, <<50640, 50836>>)

\* text ends in one of the question endings 까요, 나요, 어요, 습니까
EndsInQuestionEnding(text) ==
  \/ EndsWith(text, <<44620, 50836>>)
  \/ EndsWith(text, <<45208, 50836>>)
  \/ EndsWith(text, <<50612, 50836>>)
  \/ EndsWith(text, <<49845, 45768, 44620>>)

\* text, in lower case, contains one of the interrogative content words
HasQuestionWord(text) ==
  \E w \in 1..Len(question_words) : Contains(Lower(text), question_words[w])

\* the rule of C14 applied to text, where polite tells whether text ends in
\* a polite ending
StatedRule(text, polite) ==
  IF HasHangul(text) /\ ~EndsInTerminalPunctuation(text) /\ ~polite
  THEN IF HasQuestionWord(text) /\ ~EndsInQuestionEnding(text)
       THEN text \o <<44620, 50836, 63>>
       ELSE text \o <<49845, 45768, 45796, 46>>
  ELSE text

\* C14 as stated: a text with Hangul that ends neither in terminal
\* punctuation nor in a polite ending gets the question ending when it holds
\* an interrogative word and does not end in a question ending, and the
\* declarative polite ending otherwise; every other text is returned
\* unchanged.  The polite endings are read either as the five endings tested
\* together with the punctuation or as those and 드립니다.
C14_StatedRule ==
  fse_out # None =>
    \/ fse_out = StatedRule(fse_in, EndsInPoliteEnding(fse_in))
    \/ fse_out = StatedRule(fse_in,
                   \/ EndsInPoliteEnding(fse_in)
                   \/ EndsWith(fse_in, <<46300, 47549, 45768, 45796>>))

\* C14 as amended: a text with Hangul that ends neither in terminal
\* punctuation nor in a polite ending gets the question ending when it holds
\* an interrogative word and does not end in a question ending, gets the
\* declarative polite ending when it holds no interrogative word and does
\* not end in 드립니다, and is otherwise returned unchanged, as is every
\* other text.
C14_EndingRule ==
  fse_out # None =>
    fse_out =
      IF /\ HasHangul(fse_in)
         /\ ~EndsInTerminalPunctuation(fse_in)
         /\ ~EndsInPoliteEnding(fse_in)
      THEN IF HasQuestionWord(fse_in)
           THEN IF EndsInQuestionEnding(fse_in)
                THEN fse_in
                ELSE fse_in \o <<44620, 50836, 63>>
           ELSE IF EndsWith(fse_in, <<46300, 47549, 45768, 45796>>)
                THEN fse_in
                ELSE fse_in \o <<49845, 45768, 45796, 46>>
      ELSE fse_in

\* fix_sentence_endings returned "왜 나요" as it was given
C14_Witness ==
  /\ fse_in = <<50780, 32, 45208, 50836>>
  /\ fse_out = fse_in

\* C16: a process_chat_message in which an exception is raised after the
\* user's message was appended returns with chat_history extended by that
\* message alone, and with the language and the model state as they were.
C16_FaultKeepsUserMessage ==
  [][ (last'.op = "chat" /\ last'.fault) =>
        /\ chat_history' = Append(chat_history, <<"user", last'.input>>)
        /\ language' = language
        /\ model_loaded' = model_loaded
        /\ model_manager' = model_manager ]_vars

\* C16's case: the exception was raised in the turn after a completed one,
\* with a model loaded
C16_Witness ==
  /\ last.op = "chat"
  /\ last.fault
  /\ model_loaded
  /\ Len(chat_history) = 3
  /\ chat_history[2][1] = "assistant"
  /\ chat_history[3] = <<"user", last.input>>

\* C18: getActiveSession called right after deleteSession of the active
\* session returns none if no durable session remains, and otherwise a
\* remaining session than which none was updated more recently.
C18_DeleteActiveReactivates ==
  (store_last.op = "getActiveSession" /\ store_last.after_delete_active) =>
    IF DOMAIN sessions = {}
    THEN store_last.result = << >>
    ELSE /\ store_last.result # << >>
         /\ LET session == store_last.result[1]
            IN /\ session.id \in DOMAIN sessions
               /\ session = sessions[session.id]
               /\ \A j \in DOMAIN sessions :
                    sessions[j].lastUpdatedAt <= session.lastUpdatedAt

\* C18's case: two sessions updated at different times remain after the
\* deletion, and getActiveSession returned the later one
C18_Witness ==
  /\ store_last.op = "getActiveSession"
  /\ store_last.after_delete_active
  /\ Cardinality(DOMAIN sessions) = 2
  /\ \E j \in DOMAIN sessions :
       sessions[j].lastUpdatedAt < store_last.result[1].lastUpdatedAt

\* C19: what listSessions returns holds every session of the durable
\* mapping once, in non-increasing lastUpdatedAt order, and no temporary
\* session.
C19_ListSortedDurable ==
  store_last.op = "listSessions" =>
    LET r == store_last.result
    IN /\ Len(r) = Cardinality(DOMAIN sessions)
       /\ { r[i].id : i \in 1..Len(r) } = DOMAIN sessions
       /\ \A i \in 1..Len(r) :
            /\ r[i] = sessions[r[i].id]
            /\ ~r[i].isTemporary
            /\ temp_session # << >> => r[i].id # temp_session[1].id
       /\ \A i \in 1..(Len(r) - 1) :
            r[i].lastUpdatedAt >= r[i + 1].lastUpdatedAt

\* C19's case: the session created first was appended to after the second
\* was created, and is listed first; a temporary session exists
C19_Witness ==
  /\ store_last.op = "listSessions"
  /\ temp_session # << >>
  /\ Len(store_last.result) = 2
  /\ store_last.result[1].id < store_last.result[2].id
  /\ store_last.result[1].lastUpdatedAt > store_last.result[2].lastUpdatedAt
  /\ store_last.result[1].messages # << >>

\* C20: an addMessage that appends the second message of the active session
\* with role assistant sets the title to the first message's content if that
\* has at most 30 characters and to its first 30 characters followed by
\* "..." otherwise; every other addMessage, and every session that is not
\* the active one, keeps its title.
C20_TitleDerivation ==
  [][ store_last'.op = "addMessage" =>
        LET before == GetActiveSession(sessions, temp_session, active_id)
            after == GetActiveSession(sessions', temp_session', active_id')
        IN /\ before # << >> =>
                /\ after # << >>
                /\ LET n == Len(after[1].messages)
                       first == after[1].messages[1].content
                   IN IF n = 2 /\ after[1].messages[n].role = "assistant"
                      THEN after[1].title =
                             IF Len(first) <= 30 THEN first
                             ELSE SubSeq(first, 1, 30) \o <<46, 46, 46>>
                      ELSE after[1].title = before[1].title
           /\ DOMAIN sessions' = DOMAIN sessions
           /\ \A j \in DOMAIN sessions \ {active_id} :
                sessions'[j].title = sessions[j].title ]_vars

\* C20's case: the second message, from the assistant, was appended to a
\* session whose first message has 31 characters
C20_Witness ==
  /\ store_last.op = "addMessage"
  /\ active_id \in DOMAIN sessions
  /\ Len(sessions[active_id].messages) = 2
  /\ sessions[active_id].messages[2].role = "assistant"
  /\ Len(sessions[active_id].messages[1].content) = 31
  /\ Len(sessions[active_id].title) = 33

\* seg is the text between the last "user\n" of context and the next
\* "<|im_end|>" (or the end of context), without its leading and trailing
\* whitespace
IsLastUserSegment(seg, context) ==
  LET marker == <<117, 115, 101, 114, 10>>
      close == <<60, 124, 105, 109, 95, 101, 110, 100, 124, 62>>
  IN \E i \in 1..Len(context) :
       /\ StartsWithAt(context, i, marker)
       /\ \A k \in (i + 1)..Len(context) : ~StartsWithAt(context, k, marker)
       /\ \E j \in (i + 5)..(Len(context) + 1) :
            /\ j = Len(context) + 1 \/ StartsWithAt(context, j, close)
            /\ \A k \in (i + 5)..(j - 1) : ~StartsWithAt(context, k, close)
            /\ IsTrimOf(seg, SubSeq(context, i + 5, j - 1))

\* C21: the user-role content of the request generate_chat_response sends
\* for a context that holds "user\n" is the trimmed text between the last
\* "user\n" and the next "<|im_end|>", so that contexts with the same such
\* segment give the same request whatever precedes it.
C21_PromptIsLastUserSegment ==
  (/\ hf_last.op = "generate_chat_response"
   /\ hf_posts > 0
   /\ \E i \in 1..Len(hf_context) :
        StartsWithAt(hf_context, i, <<117, 115, 101, 114, 10>>))
    => IsLastUserSegment(hf_prompt, hf_context)

\* C21's case: the request for a context of two user messages and a reply
\* carried the second user message, trimmed
C21_Witness ==
  /\ hf_last.op = "generate_chat_response"
  /\ hf_posts > 0
  /\ hf_prompt = <<50504, 45397>>
  /\ \E u \in UserInputs :
       /\ u # <<50504, 45397>>
       /\ hf_context =
            prepare_chat_context(<< <<"user", u>>, <<"assistant", <<111, 107>>>>,
                                    <<"user", <<32, 50504, 45397, 32>>>> >>)

\* C22: generate_chat_response and generate_text of a client that is not
\* loaded return none, issue no request and leave model_loaded as it is.
C22_UnloadedNeverPosts ==
  [][ (/\ ~hf_model_loaded
       /\ hf_last'.op \in {"generate_chat_response", "generate_text"}) =>
        /\ hf_result' = None
        /\ hf_posts' = 0
        /\ hf_final' = NoResponse
        /\ hf_model_loaded' = hf_model_loaded ]_vars

\* C22's case: generate_text of a client that is not loaded has returned
C22_Witness ==
  /\ hf_last.op = "generate_text"
  /\ ~hf_model_loaded
  /\ hf_posts = 0
  /\ hf_result = None

\* C23: in every state of the application, model_loaded being true implies
\* that model_manager is not None.
C23_LoadedHasManager == model_loaded => model_manager # NoManager

\* C23's case: a message was processed with the model loaded
C23_Witness ==
  /\ model_loaded
  /\ model_manager # NoManager
  /\ last.op = "chat"
  /\ last.primary = "answered"

\* C24: no assistant message of chat_history is the localized "failed to
\* generate response" text.
C24_ErrorTextNeverStored ==
  \A i \in 1..Len(chat_history) :
    chat_history[i][1] = "assistant" => chat_history[i][2] \notin {ERR_KO, ERR_EN}

\* C24's case: two turns were completed, the last one by the mock client
\* after the primary client failed, with the language set to English
C24_Witness ==
  /\ last.op = "chat"
  /\ last.primary = "failed"
  /\ ~last.fault
  /\ language = "en"
  /\ Len(chat_history) = 4

\* C25: a text post_process_response returns for a non-empty input, if it
\* contains a Hangul syllable, ends in '.', '!' or '?', in one of the polite
\* endings (습니다, 입니다, 드립니다, 어요, 아요, 에요) or in one of the question
\* endings (까요, 나요, 어요, 습니까).
C25_HangulOutputHasEnding ==
  \A out \in {pp_out, pp_again} :
    (out # None /\ pp_in # <<>> /\ HasHangul(out)) =>
      \/ EndsInTerminalPunctuation(out)
      \/ EndsInPoliteEnding(out)
      \/ EndsWith(out, <<46300, 47549, 45768, 45796>>)
      \/ EndsInQuestionEnding(out)

\* C25's case: "안녕" was returned as "안녕습니다."
C25_Witness ==
  /\ pp_in = <<50504, 45397>>
  /\ pp_out = <<50504, 45397, 49845, 45768, 45796, 46>>

\* C26: the clear-chat button empties chat_history and leaves language,
\* model_loaded and model_manager as they are; the language toggle,
\* load_model and reload_model leave chat_history as it is.
C26_FrameEffects ==
  [][ /\ last'.op = "clear" =>
           /\ chat_history' = <<>>
           /\ language' = language
           /\ model_loaded' = model_loaded
           /\ model_manager' = model_manager
      /\ last'.op \in {"toggle", "load_ok", "load_failed", "reload"} =>
           chat_history' = chat_history ]_vars

\* C26's case: the chat was cleared with a model loaded and the language
\* switched to English
C26_Witness ==
  /\ last.op = "clear"
  /\ chat_history = <<>>
  /\ model_loaded
  /\ model_manager # NoManager
  /\ language = "en"

====
